---- MODULE Spec2Model ----
(***************************************************************************)
(* Model of BaileysMessageProcessor                                        *)
(* (src/api/integrations/channel/whatsapp/baileysMessage.processor.ts).    *)
(*                                                                         *)
(* The processor owns one RxJS Subject (messageSubject) and the            *)
(* Subscription of the last pipeline that mount() built on it:             *)
(*   bufferTime -> filter -> mergeMap(batch -> from(batch).pipe(           *)
(*     mergeMap(group -> from(onMessageReceive(group)).pipe(               *)
(*       timeout, retryWhen(delay(1000), take(3), finalize), catchError),  *)
(*     maxConcurrency))) -> catchError(EMPTY).                             *)
(*                                                                         *)
(* Every mount() call builds one such pipeline; a pipeline is named by the *)
(* rank of the mount() call that built it.  Groups are named by the rank   *)
(* of the processMessage() call that submitted them.  All durations are    *)
(* counted in units of 1000 ms, the literal of delay(1000).                *)
(***************************************************************************)
EXTENDS Integers, Sequences, FiniteSets

(* ---- bounds of the model ---- *)
NumGroups == 2          \* processMessage() calls explored
MaxMounts == 2          \* mount() calls explored
maxConcurrency == 1     \* mount option (default 5)
timeoutMs == 3          \* mount option, in units of 1000 ms (default 30)
batchTimeoutMs == 2     \* mount option, in units of 1000 ms (default 1)

(* ---- program constants ---- *)
retryDelay == 1         \* delay(1000)
maxRetryAttempts == 3   \* take(3)

Groups == 1..NumGroups
Pipes == 1..MaxMounts

VARIABLES
    pipe,           \* pipe[p]: the pipeline built by the p-th mount() call
    mounts,         \* number of mount() calls made so far
    subscription,   \* this.subscription: the pipeline it refers to, 0 = undefined
    isStopped,      \* messageSubject.isStopped: complete() has been called
    sub             \* sub[g]: what is known of the g-th processMessage() call

vars == <<pipe, mounts, subscription, isStopped, sub>>

Min(a, b) == IF a < b THEN a ELSE b

Live == {"running", "delay"}

(* One ProcessingTask: the inner observable built for one group of a batch. *)
NewTask ==
    [st      |-> "none",     \* none, buffered, queued, running, delay, success,
                             \* exhausted, abandoned, dropped, threw
     errors  |-> 0,          \* errors the retryWhen notifier has received
     timer   |-> 0,          \* time left on timeout() or on delay()
     promise |-> "none",     \* the promise onMessageReceive returned
     calls   |-> 0,          \* invocations of onMessageReceive for this task
     failLog |-> 0]          \* 'Failed to process message batch after 3 retries'

NewPipe ==
    [state   |-> "none",     \* none, subscribed, srcDone, closed, halted
     timer   |-> 0,          \* time left until bufferTime emits
     buffer  |-> <<>>,       \* bufferTime's open buffer
     batches |-> <<>>,       \* batches that passed filter(), in order
     task    |-> [g \in Groups |-> NewTask]]

(* A processMessage() call: the lifecycle state it found, the time since it *)
(* was made (counted up to MaxAge), what it returned.                        *)
MaxAge == 2 * batchTimeoutMs

NotSent == [phase |-> "unsent", age |-> 0, ret |-> "none"]

Init ==
    /\ pipe = [p \in Pipes |-> NewPipe]
    /\ mounts = 0
    /\ subscription = 0
    /\ isStopped = FALSE
    /\ sub = [g \in Groups |-> NotSent]

(* ------------------------------------------------------------------------ *)
(* The executor: mergeMap(batch -> from(batch).pipe(mergeMap(task, n)))      *)
(* ------------------------------------------------------------------------ *)

InBatch(pl, b, g) == \E i \in DOMAIN pl.batches[b] : pl.batches[b][i] = g

(* The batch a group was emitted in, 0 when it was emitted in none. *)
BatchOf(pl, g) ==
    IF \E b \in DOMAIN pl.batches : InBatch(pl, b, g)
    THEN CHOOSE b \in DOMAIN pl.batches : InBatch(pl, b, g)
    ELSE 0

(* mergeMap's `active` counter of the inner mergeMap of batch b. *)
Active(pl, b) ==
    Cardinality({g \in Groups : InBatch(pl, b, g) /\ pl.task[g].st \in Live})

(* mergeMap's `buffer` of the inner mergeMap of batch b: the groups of the   *)
(* batch that wait for a slot, in the order from(batch) emitted them.        *)
IsQueued(pl, g) == pl.task[g].st = "queued"

Queued(pl, b) == SelectSeq(pl.batches[b], LAMBDA g : IsQueued(pl, g))

(* Variant of Admittable: the inner mergeMap has no concurrency argument. *)
AdmittableAll(pl, b) ==
    IF b = 0 THEN 0
    ELSE Len(Queued(pl, b))

(* How many queued groups of batch b the inner mergeMap subscribes now. *)
Admittable(pl, b) ==
    IF b = 0 THEN 0
    ELSE Min(Len(Queued(pl, b)), maxConcurrency - Active(pl, b))

(* The project function: onMessageReceive is called once, here, and the     *)
(* promise it returns is wrapped by from(); timeout() starts its timer.      *)
Invoke(t) ==
    [t EXCEPT !.st = "running", !.timer = timeoutMs,
              !.promise = "pending", !.calls = @ + 1]

(* finalize() of the retryWhen notifier.  The notifier exists once the first *)
(* error has been received; its finalizer runs when the notifier completes   *)
(* and also when it is unsubscribed, once.                                   *)
Finalize(t) ==
    IF t.errors > 0 THEN [t EXCEPT !.failLog = @ + 1] ELSE t

(* Unsubscription of a whole pipeline: every inner subscription is torn     *)
(* down, buffered and queued groups are forgotten, the timers are cleared.  *)
Teardown(pl, state) ==
    [pl EXCEPT
        !.state = state,
        !.timer = 0,
        !.buffer = <<>>,
        !.task = [g \in Groups |->
            IF pl.task[g].st \in Live
            THEN [Finalize(pl.task[g]) EXCEPT !.st = "abandoned", !.timer = 0]
            ELSE IF pl.task[g].st \in {"buffered", "queued"}
            THEN [pl.task[g] EXCEPT !.st = "dropped"]
            ELSE pl.task[g]]]

(* Variant of ThrowInProject: the error stays inside the task. *)
ThrowInProjectCaught(pl, g) ==
    [pl EXCEPT !.task[g] = [@ EXCEPT !.st = "threw", !.calls = @ + 1]]

(* The handler call of the project function throws instead of returning a   *)
(* promise: the error leaves both mergeMaps and reaches the stream-level    *)
(* catchError, which ends the stream with EMPTY.                            *)
ThrowInProject(pl, g) ==
    Teardown([pl EXCEPT !.task[g] = [@ EXCEPT !.st = "threw", !.calls = @ + 1]],
             "halted")

(* The inner mergeMap of batch b subscribes queued groups while it has free *)
(* slots.  bad = k > 0: the k-th handler call made now throws.              *)
RECURSIVE AdmitFrom(_, _, _)
AdmitFrom(pl, b, bad) ==
    IF Admittable(pl, b) <= 0 THEN pl
    ELSE LET g == Head(Queued(pl, b)) IN
         IF bad = 1 THEN ThrowInProject(pl, g)
         ELSE AdmitFrom([pl EXCEPT !.task[g] = Invoke(@)], b,
                        IF bad = 0 THEN 0 ELSE bad - 1)

(* Variant of EmitBatch: the batch reaches the mergeMap last group first. *)
EmitBatchReversed(pl, batch) ==
    [pl EXCEPT
        !.batches = Append(@, [i \in DOMAIN batch |-> batch[Len(batch) + 1 - i]]),
        !.task = [g \in Groups |->
            IF \E i \in DOMAIN batch : batch[i] = g
            THEN [pl.task[g] EXCEPT !.st = "queued"]
            ELSE pl.task[g]]]

(* A batch passes filter() and tap() and reaches the outer mergeMap. *)
EmitBatch(pl, batch) ==
    [pl EXCEPT
        !.batches = Append(@, batch),
        !.task = [g \in Groups |->
            IF \E i \in DOMAIN batch : batch[i] = g
            THEN [pl.task[g] EXCEPT !.st = "queued"]
            ELSE pl.task[g]]]

(* Variant of StartBuffer: the emitted buffer is not replaced. *)
StartBufferKeeps(pl) ==
    [pl EXCEPT !.timer = batchTimeoutMs]

(* bufferTime's startBuffer(): a fresh buffer and a fresh timer. *)
StartBuffer(pl) ==
    [pl EXCEPT !.buffer = <<>>, !.timer = batchTimeoutMs]

(* Variant of RetryCeilingReached: the notifier lets one more retry pass. *)
RetryCeilingOffByOne(t) == t.errors > maxRetryAttempts

(* take(3) of the notifier: the emission that follows the third error is    *)
(* the last one, the notifier completes with it.                            *)
RetryCeilingReached(t) == t.errors >= maxRetryAttempts

(* An error reaches the notifier: tap() warns, delay(1000) starts. *)
OnError(t) ==
    [t EXCEPT !.st = "delay", !.errors = @ + 1, !.timer = retryDelay]

(* Variant of OnTimeout: a timed-out attempt is retried without counting. *)
OnTimeoutUncounted(t) ==
    [t EXCEPT !.st = "delay", !.timer = retryDelay]

(* Variant of OnTimeout: timeout() restarts its timer and raises nothing. *)
OnTimeoutRestarts(t) ==
    [t EXCEPT !.timer = timeoutMs]

(* timeout() raises a TimeoutError: an error like any other. *)
OnTimeout(t) == OnError(t)

(* The inner observable of a task completes: with the value of the promise, *)
(* or empty when the notifier completed.                                    *)
Settle(t, outcome) ==
    [Finalize(t) EXCEPT !.st = outcome, !.timer = 0]

(* retryWhen subscribes to from(promise).pipe(timeout) again.  The handler  *)
(* is not called again: the promise is the one the project function got.    *)
Resubscribe(t) ==
    IF t.promise = "resolved" THEN Settle(t, "success")
    ELSE IF t.promise = "rejected" THEN OnError(t)
    ELSE [t EXCEPT !.st = "running", !.timer = timeoutMs]

(* ------------------------------------------------------------------------ *)
(* The batcher: bufferTime(batchTimeoutMs), filter(batch.length > 0)         *)
(* ------------------------------------------------------------------------ *)

(* Variant of Emit: without filter(), every buffer reaches the mergeMap. *)
EmitUnfiltered(pl, bad) ==
    AdmitFrom(EmitBatch(pl, pl.buffer), Len(pl.batches) + 1, bad)

(* bufferTime emits its buffer; filter() lets it pass when it is not empty. *)
Emit(pl, bad) ==
    IF pl.buffer = <<>> THEN pl
    ELSE AdmitFrom(EmitBatch(pl, pl.buffer), Len(pl.batches) + 1, bad)

(* The handler calls a pipeline makes at once when its buffer is emitted. *)
FirstAdmitted(pl) == Min(Len(pl.buffer), maxConcurrency)

(* Variant of TimerEmit: startBuffer() runs before the buffer is read. *)
TimerEmitLoses(pl, bad) ==
    LET out == Emit(StartBuffer(pl), bad)
    IN  IF out.state = "halted" THEN out ELSE StartBuffer(out)

(* bufferTime's emit(record) on its timer: next(buffer), then startBuffer(). *)
TimerEmit(pl, bad) ==
    LET out == Emit(pl, bad)
    IN  IF out.state = "halted" THEN out ELSE StartBuffer(out)

(* bufferTime's complete handler: the open buffer is emitted, the stream    *)
(* waits for its tasks and completes.                                       *)
SourceComplete(pl, bad) ==
    LET out == Emit(pl, bad)
    IN  IF out.state = "halted" THEN out
        ELSE [out EXCEPT !.state = "srcDone", !.buffer = <<>>, !.timer = 0]

(* Variant of Deliver: the group is put at the front of the buffer. *)
DeliverFirst(pl, g) ==
    IF pl.state = "subscribed"
    THEN [pl EXCEPT !.buffer = <<g>> \o @,
                    !.task[g].st = "buffered"]
    ELSE pl

(* Subject.next reaches the bufferTime subscriber of a subscribed pipeline. *)
Deliver(pl, g) ==
    IF pl.state = "subscribed"
    THEN [pl EXCEPT !.buffer = Append(@, g),
                    !.task[g].st = "buffered"]
    ELSE pl

(* ------------------------------------------------------------------------ *)
(* The operations of the class                                               *)
(* ------------------------------------------------------------------------ *)

(* Variant of MountPipeline: the Subject replays to the new pipeline the    *)
(* groups it was given while it had no observer.                            *)
MountPipelineReplays ==
    LET early == SelectSeq([i \in 1..NumGroups |-> i],
                           LAMBDA g : sub[g].phase = "unmounted")
    IN  /\ mounts < MaxMounts
        /\ pipe' = [pipe EXCEPT ![mounts + 1] =
                       IF isStopped THEN [@ EXCEPT !.state = "srcDone"]
                       ELSE [StartBuffer([@ EXCEPT !.state = "subscribed"])
                                EXCEPT !.buffer = early]]
        /\ mounts' = mounts + 1
        /\ subscription' = mounts + 1
        /\ UNCHANGED <<isStopped, sub>>

(* mount(): builds a pipeline on messageSubject and overwrites               *)
(* this.subscription.  A stopped Subject completes the new pipeline at once. *)
MountPipeline ==
    /\ mounts < MaxMounts
    /\ pipe' = [pipe EXCEPT ![mounts + 1] =
                   IF isStopped THEN [@ EXCEPT !.state = "srcDone"]
                   ELSE StartBuffer([@ EXCEPT !.state = "subscribed"])]
    /\ mounts' = mounts + 1
    /\ subscription' = mounts + 1
    /\ UNCHANGED <<isStopped, sub>>

Mounted == \E p \in Pipes : pipe[p].state = "subscribed"

(* mount() on a processor that has no subscribed pipeline: the first mount, *)
(* a mount after onDestroy(), a mount after the stream ended on an error.   *)
Mount ==
    /\ ~Mounted
    /\ MountPipeline

(* mount() on a processor that is already mounted: nothing in mount() looks *)
(* at this.subscription, the earlier pipeline stays subscribed to the       *)
(* Subject and nothing refers to it any more.  Explored once the groups     *)
(* before the last one have been submitted: the later pipeline receives the *)
(* last group only.                                                         *)
MountAgain ==
    /\ Mounted
    /\ sub[NumGroups].phase = "unsent"
    /\ sub[NumGroups - 1].phase # "unsent"
    /\ MountPipeline

(* The lifecycle state a processMessage() call finds. *)
Phase == IF isStopped THEN "destroyed"
         ELSE IF mounts = 0 THEN "unmounted" ELSE "mounted"

(* processMessage(): messageSubject.next(); returns nothing.  A stopped      *)
(* Subject ignores next(); a Subject without observers forgets the value.    *)
ProcessMessage(g) ==
    /\ sub[g].phase = "unsent"
    /\ IF g = 1 THEN TRUE ELSE sub[g - 1].phase # "unsent"
    /\ pipe' = IF isStopped THEN pipe
               ELSE [p \in Pipes |-> Deliver(pipe[p], g)]
    /\ sub' = [sub EXCEPT ![g] = [phase |-> Phase, age |-> 0, ret |-> "void"]]
    /\ UNCHANGED <<mounts, subscription, isStopped>>

(* this.subscription?.unsubscribe() *)
Unsubscribe(pl) ==
    IF pl.state = "subscribed" THEN Teardown(pl, "closed") ELSE pl

(* onDestroy(): unsubscribes this.subscription, then completes the Subject,  *)
(* which completes every pipeline still subscribed to it.                    *)
OnDestroy ==
    LET unsub == [p \in Pipes |->
                    IF p = subscription THEN Unsubscribe(pipe[p]) ELSE pipe[p]]
        Completes(p) == ~isStopped /\ unsub[p].state = "subscribed"
    IN  /\ \E bads \in [Pipes -> 0..maxConcurrency] :
            /\ \A p \in Pipes :
                 bads[p] <= IF Completes(p) THEN FirstAdmitted(unsub[p]) ELSE 0
            /\ pipe' = [p \in Pipes |->
                          IF Completes(p) THEN SourceComplete(unsub[p], bads[p])
                          ELSE unsub[p]]
        /\ isStopped' = TRUE
        /\ UNCHANGED <<mounts, subscription, sub>>

(* ------------------------------------------------------------------------ *)
(* Timers and the handler's promise                                          *)
(* ------------------------------------------------------------------------ *)

(* The bufferTime timer of pipeline p fires. *)
BufferTimeFlush(p) ==
    /\ pipe[p].state = "subscribed"
    /\ pipe[p].timer = 0
    /\ \E bad \in 0..FirstAdmitted(pipe[p]) :
          pipe' = [pipe EXCEPT ![p] = TimerEmit(@, bad)]
    /\ UNCHANGED <<mounts, subscription, isStopped, sub>>

(* The task of group g has taken a step that left pipeline p as pl; when    *)
(* the step freed the task's slot, the inner mergeMap of its batch          *)
(* subscribes the next queued group.                                        *)
TaskStep(p, g, pl) ==
    /\ \E bad \in 0..Admittable(pl, BatchOf(pl, g)) :
          pipe' = [pipe EXCEPT ![p] = AdmitFrom(pl, BatchOf(pl, g), bad)]
    /\ UNCHANGED <<mounts, subscription, isStopped, sub>>

(* The promise resolves while from(promise) is subscribed: next, complete. *)
Succeed(pl, g) ==
    [pl EXCEPT !.task[g] = Settle([@ EXCEPT !.promise = "resolved"], "success")]

(* The promise rejects while from(promise) is subscribed. *)
Fail(pl, g) ==
    [pl EXCEPT !.task[g] = OnError([@ EXCEPT !.promise = "rejected"])]

(* Variant of Exhaust: the exhausted task ends with an error that nothing   *)
(* catches, and the error ends the stream.                                  *)
ExhaustPropagates(pl, g) ==
    Teardown([pl EXCEPT !.task[g] = Settle(@, "exhausted")], "halted")

(* The notifier completes: retryWhen completes the inner observable, no     *)
(* error reaches the catchError of the task or the mergeMaps.               *)
Exhaust(pl, g) ==
    [pl EXCEPT !.task[g] = Settle(@, "exhausted")]

(* The promise of onMessageReceive resolves. *)
HandlerResolves(p, g) ==
    /\ pipe[p].task[g].st \in Live
    /\ pipe[p].task[g].promise = "pending"
    /\ TaskStep(p, g, IF pipe[p].task[g].st = "running"
                      THEN Succeed(pipe[p], g)
                      ELSE [pipe[p] EXCEPT !.task[g].promise = "resolved"])

(* The promise of onMessageReceive rejects. *)
HandlerRejects(p, g) ==
    /\ pipe[p].task[g].st \in Live
    /\ pipe[p].task[g].promise = "pending"
    /\ TaskStep(p, g, IF pipe[p].task[g].st = "running"
                      THEN Fail(pipe[p], g)
                      ELSE [pipe[p] EXCEPT !.task[g].promise = "rejected"])

(* timeout(timeoutMs) fires: the promise is still pending. *)
Timeout(p, g) ==
    /\ pipe[p].task[g].st = "running"
    /\ pipe[p].task[g].timer = 0
    /\ TaskStep(p, g, [pipe[p] EXCEPT !.task[g] = OnTimeout(@)])

(* delay(1000) lets the error through to take(3) and to retryWhen. *)
RetryDelayElapsed(p, g) ==
    /\ pipe[p].task[g].st = "delay"
    /\ pipe[p].task[g].timer = 0
    /\ TaskStep(p, g, IF RetryCeilingReached(pipe[p].task[g])
                      THEN Exhaust(pipe[p], g)
                      ELSE [pipe[p] EXCEPT !.task[g] = Resubscribe(@)])

(* No timer is due: time may pass. *)
CanTick(pl) ==
    /\ pl.state = "subscribed" => pl.timer > 0
    /\ \A g \in Groups : pl.task[g].st \in Live => pl.task[g].timer > 0

TickPipe(pl) ==
    [pl EXCEPT
        !.timer = IF pl.state = "subscribed" THEN @ - 1 ELSE @,
        !.task = [g \in Groups |->
            IF pl.task[g].st \in Live
            THEN [pl.task[g] EXCEPT !.timer = @ - 1]
            ELSE pl.task[g]]]

(* One unit of time passes. *)
Tick ==
    /\ \A p \in Pipes : CanTick(pipe[p])
    /\ pipe' = [p \in Pipes |-> TickPipe(pipe[p])]
    /\ sub' = [g \in Groups |->
                 IF sub[g].phase = "unsent" THEN sub[g]
                 ELSE [sub[g] EXCEPT !.age = Min(@ + 1, MaxAge)]]
    /\ UNCHANGED <<mounts, subscription, isStopped>>

Next ==
    \/ Mount
    \/ OnDestroy
    \/ Tick
    \/ \E g \in Groups : ProcessMessage(g)
    \/ \E p \in Pipes : BufferTimeFlush(p)
    \/ \E p \in Pipes, g \in Groups : HandlerResolves(p, g)
    \/ \E p \in Pipes, g \in Groups : HandlerRejects(p, g)
    \/ \E p \in Pipes, g \in Groups : Timeout(p, g)
    \/ \E p \in Pipes, g \in Groups : RetryDelayElapsed(p, g)

Spec == Init /\ [][Next]_vars

NextRemount == Next \/ MountAgain

SpecRemount == Init /\ [][NextRemount]_vars

(* The timers of bufferTime, timeout() and delay() are timers of the event  *)
(* loop: time passes, and a timer that is due fires.  Nothing makes the     *)
(* promise of a handler settle.                                             *)
Fairness ==
    /\ WF_vars(Tick)
    /\ \A p \in Pipes : WF_vars(BufferTimeFlush(p))
    /\ \A p \in Pipes, g \in Groups : WF_vars(Timeout(p, g))
    /\ \A p \in Pipes, g \in Groups : WF_vars(RetryDelayElapsed(p, g))

SpecFair == Spec /\ Fairness

(* ------------------------------------------------------------------------ *)
(* Properties                                                                *)
(* ------------------------------------------------------------------------ *)

T(p, g) == pipe[p].task[g]

(* Time between the submissions of g1 and g2, g1 the earlier: exact while   *)
(* the age of g1 is known, a lower bound once it has reached MaxAge.        *)
Dist(g1, g2) == sub[g1].age - sub[g2].age

AgeKnown(g) == sub[g].phase # "unsent" /\ sub[g].age < MaxAge

(* Position of group g in batch b of pipeline pl. *)
PosIn(seq, g) == CHOOSE i \in DOMAIN seq : seq[i] = g

(* A handler call made in this step threw inside the project function. *)
ThrewNow(p) ==
    \E g \in Groups : T(p, g).st = "queued" /\ pipe'[p].task[g].st = "threw"

(* C1. Fault isolation: the step in which a task ends in terminal failure    *)
(* (its retries are exhausted after rejections or timeouts) leaves every     *)
(* other task of the pipeline as it was, or admits a queued one to the freed *)
(* slot; it leaves the batcher, the emitted batches, the pipeline's state    *)
(* and the other pipelines untouched.  A running task whose handler resolves *)
(* reaches success whatever the state of the other tasks.                    *)
C1_Step ==
    \A p \in Pipes, g1 \in Groups :
        /\ (T(p, g1).st # "exhausted" /\ pipe'[p].task[g1].st = "exhausted"
            /\ ~ThrewNow(p))
           => /\ pipe'[p].state = pipe[p].state
              /\ pipe'[p].buffer = pipe[p].buffer
              /\ pipe'[p].timer = pipe[p].timer
              /\ pipe'[p].batches = pipe[p].batches
              /\ \A q \in Pipes \ {p} : pipe'[q] = pipe[q]
              /\ \A g2 \in Groups \ {g1} :
                    \/ pipe'[p].task[g2] = T(p, g2)
                    \/ /\ T(p, g2).st = "queued"
                       /\ pipe'[p].task[g2].st = "running"
        /\ (T(p, g1).st = "running" /\ pipe'[p].task[g1].promise = "resolved")
           => pipe'[p].task[g1].st = "success"

C1_FaultIsolation == [][C1_Step]_vars

(* C1 witness: G1 exhausted and G2 succeeded, both of the same batch. *)
C1_Witness ==
    \E p \in Pipes, g1 \in Groups, g2 \in Groups :
        /\ g1 # g2
        /\ T(p, g1).st = "exhausted"
        /\ T(p, g2).st = "success"
        /\ BatchOf(pipe[p], g1) = BatchOf(pipe[p], g2)

(* C2. Global concurrency ceiling: the tasks of a pipeline that have their   *)
(* handler invocation running, all batches together, number at most          *)
(* maxConcurrency.                                                           *)
C2_GlobalCeiling ==
    \A p \in Pipes :
        Cardinality({g \in Groups : T(p, g).st = "running"}) <= maxConcurrency

(* C3. Retry re-invocation count: a task that ended exhausted, its handler   *)
(* having failed every attempt, has had its handler invoked exactly          *)
(* maxRetryAttempts times.                                                   *)
C3_InvokedThreeTimes ==
    \A p \in Pipes, g \in Groups :
        (T(p, g).st = "exhausted" /\ T(p, g).promise # "resolved")
            => T(p, g).calls = maxRetryAttempts

(* C4. Retry ceiling is terminal: a task is retried only while it has        *)
(* failed fewer than maxRetryAttempts attempts; an exhausted task has        *)
(* failed exactly maxRetryAttempts attempts and produced exactly one         *)
(* terminal-failure record, and nothing of it changes afterwards.            *)
C4_Inv ==
    \A p \in Pipes, g \in Groups :
        /\ T(p, g).errors <= maxRetryAttempts
        /\ T(p, g).st = "exhausted"
           => T(p, g).errors = maxRetryAttempts /\ T(p, g).failLog = 1

C4_Step ==
    \A p \in Pipes, g \in Groups :
        /\ T(p, g).st = "exhausted" => pipe'[p].task[g] = T(p, g)
        /\ (/\ T(p, g).st = "delay"
            /\ \/ pipe'[p].task[g].st \in {"running", "success"}
               \/ pipe'[p].task[g].errors > T(p, g).errors)
           => T(p, g).errors < maxRetryAttempts
        /\ pipe'[p].task[g].st = "exhausted" => T(p, g).st \in {"delay", "exhausted"}

C4_RetryCeilingTerminal == []C4_Inv /\ [][C4_Step]_vars

(* C4 witness: a task has exhausted its retries. *)
C4_Witness ==
    \E p \in Pipes, g \in Groups : T(p, g).st = "exhausted"

(* C5. Timeout counts as a failed attempt: an attempt starts with timeoutMs  *)
(* on its timer and time does not pass once the timer is due; a running task *)
(* whose handler has not completed leaves the attempt only when the timer    *)
(* has run out (or the pipeline is torn down), and then exactly as after a   *)
(* rejection: one more error, then the retry delay.  A task whose handler    *)
(* never returned ends exhausted like one that always rejected.              *)
C5_Inv ==
    \A p \in Pipes, g \in Groups :
        /\ T(p, g).st = "running" => T(p, g).timer \in 0..timeoutMs
        /\ (T(p, g).st = "exhausted" /\ T(p, g).promise = "pending")
           => T(p, g).errors = maxRetryAttempts /\ T(p, g).failLog = 1

FailedAttempt(t, u) ==
    /\ u.st = "delay"
    /\ u.errors = t.errors + 1
    /\ u.timer = retryDelay

C5_Step ==
    \A p \in Pipes, g \in Groups :
        /\ (T(p, g).st # "running" /\ pipe'[p].task[g].st = "running")
           => pipe'[p].task[g].timer = timeoutMs
        /\ (/\ T(p, g).st = "running"
            /\ pipe'[p].task[g].st \notin {"running", "abandoned"}
            /\ pipe'[p].task[g].promise = "pending")
           => T(p, g).timer = 0 /\ FailedAttempt(T(p, g), pipe'[p].task[g])
        /\ (T(p, g).st = "running" /\ pipe'[p].task[g].promise = "rejected")
           => FailedAttempt(T(p, g), pipe'[p].task[g])

C5_TimeoutIsFailure == []C5_Inv /\ [][C5_Step]_vars

(* C5 witness: a task is exhausted and its handler has never returned. *)
C5_Witness ==
    \E p \in Pipes, g \in Groups :
        T(p, g).st = "exhausted" /\ T(p, g).promise = "pending"

(* C6. Success discards retry state: a task that succeeded has produced no   *)
(* terminal-failure record.                                                  *)
C6_NoFailureRecordOnSuccess ==
    \A p \in Pipes, g \in Groups :
        T(p, g).st = "success" => T(p, g).failLog = 0

(* C7. Submit after destroy is signalled: a processMessage() call made after *)
(* onDestroy() returned or raised PipelineClosed.                            *)
C7_SubmitAfterDestroySignalled ==
    \A g \in Groups :
        sub[g].phase = "destroyed" => sub[g].ret = "PipelineClosed"

(* C8. No processing starts after destroy: from the onDestroy() call on, no  *)
(* pipeline emits a batch to the executor and no handler invocation begins.  *)
C8_Step ==
    (isStopped \/ isStopped')
        => \A p \in Pipes :
              /\ Len(pipe'[p].batches) = Len(pipe[p].batches)
              /\ \A g \in Groups : pipe'[p].task[g].calls = T(p, g).calls

C8_NoProcessingAfterDestroy == [][C8_Step]_vars

(* Every gap between consecutive submissions from g1 to g2 is known and     *)
(* below the batch window.                                                   *)
SmallGaps(g1, g2) ==
    \A k \in (g1 + 1)..g2 : AgeKnown(k - 1) /\ Dist(k - 1, k) < batchTimeoutMs

(* C9, as claimed. Batch formation under small gaps: groups submitted to a   *)
(* running pipeline with every gap between consecutive submissions smaller   *)
(* than batchTimeoutMs are emitted in one single batch.                      *)
C9_SmallGapsOneBatch ==
    \A p \in Pipes, g1 \in Groups, g2 \in Groups :
        (/\ g1 < g2
         /\ BatchOf(pipe[p], g1) # 0
         /\ BatchOf(pipe[p], g2) # 0
         /\ SmallGaps(g1, g2))
            => BatchOf(pipe[p], g1) = BatchOf(pipe[p], g2)

(* The step is a processMessage() call for group g. *)
Submits(g) == sub[g].phase = "unsent" /\ sub'[g].phase # "unsent"

(* C9, amended. Batch formation inside a window: a group submitted to a      *)
(* running pipeline goes behind the groups submitted since the last flush;   *)
(* nothing but a flush or the end of the pipeline takes a group out of the   *)
(* buffer, and a flush emits the whole buffer, in its order, as one batch.   *)
C9_Step ==
    \A p \in Pipes :
        /\ \A g \in Groups :
              (Submits(g) /\ pipe[p].state = "subscribed")
                 => /\ pipe'[p].buffer = Append(pipe[p].buffer, g)
                    /\ pipe'[p].batches = pipe[p].batches
        /\ pipe'[p].batches # pipe[p].batches
              => /\ pipe[p].buffer # <<>>
                 /\ pipe'[p].batches = Append(pipe[p].batches, pipe[p].buffer)
                 /\ pipe'[p].buffer = <<>>
        /\ (pipe'[p].buffer # pipe[p].buffer /\ ~\E g \in Groups : Submits(g))
              => /\ pipe'[p].buffer = <<>>
                 /\ \/ pipe'[p].batches = Append(pipe[p].batches, pipe[p].buffer)
                    \/ pipe'[p].state \in {"closed", "halted"}

C9_SameWindowOneBatch == [][C9_Step]_vars

(* C9 witness: two groups submitted at different times of one window have    *)
(* been emitted in the same batch, in submission order.                      *)
C9_Witness ==
    \E p \in Pipes, g1 \in Groups, g2 \in Groups, b \in 1..NumGroups :
        /\ g1 < g2
        /\ AgeKnown(g1)
        /\ Dist(g1, g2) > 0
        /\ b \in DOMAIN pipe[p].batches
        /\ InBatch(pipe[p], b, g1)
        /\ InBatch(pipe[p], b, g2)
        /\ PosIn(pipe[p].batches[b], g1) < PosIn(pipe[p].batches[b], g2)

(* C10. Batch split on large gaps: no group waits in the bufferTime buffer   *)
(* for longer than batchTimeoutMs, and two groups that a pipeline emitted in *)
(* the same batch were submitted at most batchTimeoutMs apart.               *)
C10_LargeGapSplits ==
    \A p \in Pipes, g1 \in Groups, g2 \in Groups :
        /\ T(p, g1).st = "buffered" => sub[g1].age <= batchTimeoutMs
        /\ (/\ g1 < g2
            /\ \E b \in DOMAIN pipe[p].batches :
                   InBatch(pipe[p], b, g1) /\ InBatch(pipe[p], b, g2))
               => Dist(g1, g2) <= batchTimeoutMs

(* C10 witness: two groups submitted more than batchTimeoutMs apart have     *)
(* both been emitted, in different batches.                                  *)
C10_Witness ==
    \E p \in Pipes, g1 \in Groups, g2 \in Groups :
        /\ g1 < g2
        /\ Dist(g1, g2) > batchTimeoutMs
        /\ BatchOf(pipe[p], g1) # 0
        /\ BatchOf(pipe[p], g2) # 0
        /\ BatchOf(pipe[p], g1) # BatchOf(pipe[p], g2)

(* Occurrences of group g in a sequence of groups. *)
Occ(seq, g) == Cardinality({i \in DOMAIN seq : seq[i] = g})

(* Places group g holds in pipeline pl: in the open buffer and in the        *)
(* emitted batches.                                                          *)
Copies(pl, g) ==
    Occ(pl.buffer, g)
    + Cardinality({bi \in (DOMAIN pl.batches) \X (1..NumGroups) :
                      /\ bi[2] \in DOMAIN pl.batches[bi[1]]
                      /\ pl.batches[bi[1]][bi[2]] = g})

(* No group is in two batches, twice in a batch, or in a batch and still in  *)
(* the buffer.                                                               *)
C11_Inv ==
    \A p \in Pipes, g \in Groups : Copies(pipe[p], g) <= 1

(* On a pipeline that is subscribed before and after the step: a submitted   *)
(* group takes one place, a step that is not its submission leaves it the    *)
(* place it has, and the flush of the timer moves every group of the buffer  *)
(* to the batch it emits.                                                    *)
C11_Step ==
    \A p \in Pipes, g \in Groups :
        (pipe[p].state = "subscribed" /\ pipe'[p].state = "subscribed")
           => /\ Submits(g) => Copies(pipe'[p], g) = 1
              /\ ~Submits(g) => Copies(pipe'[p], g) = Copies(pipe[p], g)
              /\ (pipe[p].timer = 0 /\ pipe'[p].timer = batchTimeoutMs
                  /\ Occ(pipe[p].buffer, g) = 1)
                    => BatchOf(pipe'[p], g) = Len(pipe[p].batches) + 1

(* C11. The batcher neither duplicates nor loses: on a pipeline that stays   *)
(* subscribed, every submitted group is in the open buffer or in exactly one *)
(* emitted batch, once; a flush moves the whole buffer into one batch, a     *)
(* group submitted at the instant of the flush included.                     *)
C11_NoDuplicateNoLoss == []C11_Inv /\ [][C11_Step]_vars

(* C11 witness: a group submitted at the instant the timer fired has been    *)
(* emitted by that flush, in one batch, and the pipeline is still            *)
(* subscribed.                                                               *)
C11_Witness ==
    \E p \in Pipes, g \in Groups :
        /\ pipe[p].state = "subscribed"
        /\ sub[g].phase = "mounted"
        /\ sub[g].age = 0
        /\ pipe[p].timer = batchTimeoutMs
        /\ BatchOf(pipe[p], g) # 0
        /\ Copies(pipe[p], g) = 1

(* Every batch the outer mergeMap has received holds a group. *)
C12_Inv ==
    \A p \in Pipes : \A b \in DOMAIN pipe[p].batches : pipe[p].batches[b] # <<>>

(* bufferTime emits an empty buffer: its timer fires, or its source          *)
(* completes, while nothing has been submitted since the last flush.         *)
EmptyWindowEnds(p) ==
    /\ pipe[p].state = "subscribed"
    /\ pipe[p].buffer = <<>>
    /\ \/ pipe[p].timer = 0 /\ pipe'[p].timer = batchTimeoutMs
       \/ pipe'[p].state = "srcDone"

C12_Step ==
    \A p \in Pipes :
        EmptyWindowEnds(p)
           => /\ pipe'[p].batches = pipe[p].batches
              /\ pipe'[p].task = pipe[p].task

(* C12. Empty windows are dropped: every batch that reaches the executor     *)
(* holds at least one group, and the end of a window in which nothing was    *)
(* submitted emits no batch and starts or changes no task.                   *)
C12_EmptyWindowsDropped == []C12_Inv /\ [][C12_Step]_vars

(* C12 witness: a pipeline has emitted one batch, a whole window has passed  *)
(* since without a submission, its timer has just fired again and there is   *)
(* still one batch.                                                          *)
C12_Witness ==
    \E p \in Pipes, g \in Groups :
        /\ pipe[p].state = "subscribed"
        /\ pipe[p].timer = batchTimeoutMs
        /\ pipe[p].buffer = <<>>
        /\ Len(pipe[p].batches) = 1
        /\ InBatch(pipe[p], 1, g)
        /\ sub[g].age = MaxAge
        /\ \A h \in Groups : T(p, h).st # "buffered"

(* C13. One task per group: after any sequence of mount(), processMessage()  *)
(* and onDestroy() calls, a second mount() on a mounted processor included,  *)
(* no group has two tasks at once whose handler invocation is in flight.     *)
C13_OneTaskPerGroup ==
    \A g \in Groups :
        Cardinality({p \in Pipes : T(p, g).st \in Live}) <= 1

(* C14. Order inside a batch: processMessage() calls are numbered in the     *)
(* order they are made, and in every emitted batch the group submitted       *)
(* first comes first, whatever has become of their tasks since.              *)
C14_BatchInSubmissionOrder ==
    \A p \in Pipes : \A b \in DOMAIN pipe[p].batches :
        \A i \in DOMAIN pipe[p].batches[b], j \in DOMAIN pipe[p].batches[b] :
            i < j => pipe[p].batches[b][i] < pipe[p].batches[b][j]

(* C14 witness: a batch of two groups whose tasks have both ended, the one   *)
(* submitted first in failure, the second in success.                        *)
C14_Witness ==
    \E p \in Pipes : \E b \in DOMAIN pipe[p].batches :
        /\ Len(pipe[p].batches[b]) >= 2
        /\ T(p, pipe[p].batches[b][1]).st = "exhausted"
        /\ T(p, pipe[p].batches[b][2]).st = "success"

(* A pipeline that has ended on an error holds nothing that could run. *)
C15_Inv ==
    \A p \in Pipes :
        pipe[p].state = "halted"
           => /\ pipe[p].buffer = <<>>
              /\ \A g \in Groups :
                    T(p, g).st \notin {"buffered", "queued", "running", "delay"}

(* The step in which a handler call throws ends the pipeline; no step        *)
(* changes a pipeline that has ended on an error, whatever is submitted.     *)
C15_Step ==
    \A p \in Pipes :
        /\ ThrewNow(p) => pipe'[p].state = "halted"
        /\ pipe[p].state = "halted" => pipe'[p] = pipe[p]

(* C15. Stream-level failure is fatal: an error that leaves the project      *)
(* function (the handler call throws instead of returning a promise) ends    *)
(* the pipeline without any onDestroy(): its open buffer and its tasks are   *)
(* discarded, it emits no further batch and calls no handler, also for       *)
(* groups submitted afterwards.                                              *)
C15_StreamFailureIsFatal == []C15_Inv /\ [][C15_Step]_vars

(* C15 witness: a pipeline has ended on an error, onDestroy() and mount()    *)
(* have not been called since, and a group submitted after the error has     *)
(* been left alone for two batch windows.                                    *)
C15_Witness ==
    \E p \in Pipes, g \in Groups :
        /\ pipe[p].state = "halted"
        /\ ~isStopped
        /\ mounts = p
        /\ sub[g].phase = "mounted"
        /\ sub[g].age = MaxAge
        /\ T(p, g) = NewTask

(* A record of an outcome of the task: its success, or the error log        *)
(* 'Failed to process message batch after 3 retries'.                        *)
Reported(t, u) ==
    \/ u.failLog # t.failLog
    \/ u.st \in {"success", "exhausted"} /\ u.st # t.st

(* C16. Abandoned tasks are not reported: a task that is in flight when      *)
(* onDestroy() is called, and any task once onDestroy() has been called,     *)
(* gets no record of an outcome in that step.                                *)
C16_Step ==
    isStopped'
       => \A p \in Pipes, g \in Groups :
             T(p, g).st \in Live => ~Reported(T(p, g), pipe'[p].task[g])

C16_AbandonedNotReported == [][C16_Step]_vars

(* C17. Destroyed is terminal: once onDestroy() has returned, no step, a     *)
(* later mount() or processMessage() included, subscribes a pipeline, puts   *)
(* a group in a buffer, forms a batch or begins a handler invocation.        *)
C17_Step ==
    isStopped
       => \A p \in Pipes :
             /\ pipe'[p].state # "subscribed"
             /\ pipe'[p].buffer = <<>>
             /\ pipe'[p].batches = pipe[p].batches
             /\ \A g \in Groups : pipe'[p].task[g].calls = T(p, g).calls

C17_DestroyedIsTerminal == [][C17_Step]_vars

(* The pipeline has been unsubscribed or has ended on an error. *)
Ended(p) == pipe[p].state \in {"closed", "halted"}

(* C18. Every task terminates and every queued task is admitted: on a        *)
(* pipeline that is neither destroyed nor halted, when time passes and due   *)
(* timers fire, every group of an emitted batch that waits for a slot is     *)
(* eventually admitted, and every group of an emitted batch eventually ends  *)
(* in success or in exhausted failure and holds no slot, whether its         *)
(* handler resolves, rejects or never returns.                               *)
C18_EveryTaskTerminates ==
    \A p \in Pipes, g \in Groups :
        /\ (T(p, g).st = "queued")
              ~> (T(p, g).calls > 0 \/ Ended(p))
        /\ (T(p, g).st \in {"queued", "running", "delay"})
              ~> (T(p, g).st \in {"success", "exhausted"} \/ Ended(p))

(* C18 witness: on a running pipeline, a task whose handler never returned   *)
(* has ended in exhausted failure, and the group that waited behind it in    *)
(* its batch has been admitted and has ended too.                            *)
C18_Witness ==
    \E p \in Pipes : \E b \in DOMAIN pipe[p].batches :
        /\ pipe[p].state = "subscribed"
        /\ Len(pipe[p].batches[b]) >= 2
        /\ T(p, pipe[p].batches[b][1]).st = "exhausted"
        /\ T(p, pipe[p].batches[b][1]).promise = "pending"
        /\ T(p, pipe[p].batches[b][2]).calls = 1
        /\ T(p, pipe[p].batches[b][2]).st \in {"success", "exhausted"}

(* No batch has more than maxConcurrency tasks that hold a slot: running,    *)
(* or waiting on a retry delay.                                              *)
C19_Inv ==
    \A p \in Pipes : \A b \in DOMAIN pipe[p].batches :
        Active(pipe[p], b) <= maxConcurrency

(* A group that waited in the queue of its batch is admitted only in a step  *)
(* in which a task of the same batch leaves its slot with an outcome.        *)
C19_Step ==
    \A p \in Pipes, g \in Groups :
        (T(p, g).st = "queued" /\ pipe'[p].task[g].calls > T(p, g).calls)
           => \E h \in Groups :
                 /\ BatchOf(pipe[p], h) = BatchOf(pipe[p], g)
                 /\ T(p, h).st \in Live
                 /\ pipe'[p].task[h].st \in {"success", "exhausted"}

(* C19. Per-batch concurrency ceiling: of the tasks of one batch at most     *)
(* maxConcurrency are admitted and not ended, a task that waits on its       *)
(* timeout or on its retry delay included, and a queued task of the batch    *)
(* is admitted only when one of them ends.                                   *)
C19_PerBatchCeiling == []C19_Inv /\ [][C19_Step]_vars

(* C19 witness: a batch has maxConcurrency tasks holding a slot, one of them *)
(* waiting on its retry delay, and a further group of the batch is queued.   *)
C19_Witness ==
    \E p \in Pipes : \E b \in DOMAIN pipe[p].batches :
        /\ Active(pipe[p], b) = maxConcurrency
        /\ \E g \in Groups : InBatch(pipe[p], b, g) /\ T(p, g).st = "delay"
        /\ Queued(pipe[p], b) # <<>>

(* C20. Submit before mount is lost: a group given to processMessage()       *)
(* before the first mount() is in no buffer and in no batch of any pipeline  *)
(* mounted later, and no pipeline has a task or a handler invocation for it. *)
C20_SubmitBeforeMountLost ==
    \A g \in Groups :
        sub[g].phase = "unmounted"
           => \A p \in Pipes :
                 /\ T(p, g) = NewTask
                 /\ Copies(pipe[p], g) = 0

(* C20 witness: a group was submitted before the first mount(), two batch   *)
(* windows ago or more, and the pipeline mounted since has called the        *)
(* handler for a later group.                                                *)
C20_Witness ==
    \E p \in Pipes, g \in Groups, h \in Groups :
        /\ sub[g].phase = "unmounted"
        /\ sub[g].age = MaxAge
        /\ pipe[p].state = "subscribed"
        /\ sub[h].phase = "mounted"
        /\ T(p, h).calls = 1

====
